---- MODULE Spec2Model ----
(***************************************************************************)
(* Model of src/main.c: the initialization chain of vulkan_init, the       *)
(* frame loop of vulkan_frame_draw running against an asynchronous GPU,    *)
(* and the teardown of application_destroy.                                *)
(*                                                                         *)
(* Handles are 0 (VK_NULL_HANDLE / nullptr) or 1 (a live handle); main     *)
(* zero-initializes struct application, so every handle starts at 0.       *)
(***************************************************************************)
EXTENDS Integers, Sequences, FiniteSets, TLC

\* ------------------------------------------------------------------ constants
MAX_TMP_BUFFER == 256
MAX_SWAPCHAIN_IMAGES == 10
\* 0xFFFFFFFF in the source. TLC's integers are 32-bit signed, so the largest of
\* them stands for it; every other extent of the model lies below it.
UINT32_MAX == 2147483647
\* config.width / config.height of main
CONFIG_WIDTH == 1280
CONFIG_HEIGHT == 720

\* ------------------------------------------------------------------ bounds
\* explicit entries at the front of a driver-reported list
MaxHead == 1
\* frame-loop iterations explored
MaxFrames == 2
\* largest minImageCount the modelled surface reports
MaxMinImages == 1
\* images the driver may create beyond the requested minimum
MaxExtraImages == 1
\* queue families of the machines application_create is run on alone
MaxFamilies == 2
\* surface formats of those machines
MaxFormats == 2
\* largest file size, in bytes, file_read is run on
MaxFileSize == 2

VARIABLES
    pc,              \* position of the host thread
    vulkan,          \* struct vulkan
    glfw,            \* windowing library: initialized flag, application.window
    created,         \* history: context-owned objects in creation order
    destroyed,       \* history: non-null handles destroyed, in order
    stages,          \* history: initialization stages attempted, with their results
    enums,           \* history: enumerations performed by the latest stage
    shaders,         \* history: scoped resources of vulkan_graphicspipeline_create
    fence,           \* frame_in_flight: "none" | "signaled" | "unsignaled"
    gpuPending,      \* queue submissions not yet retired
    imageAvailable,  \* pending signals on swapchain_image_available
    renderFinished,  \* pending signals on render_finished
    presentPending,  \* present requests queued and not yet executed
    held,            \* swap images acquired and not yet handed back
    actualImages,    \* images the swapchain really has
    image_index,     \* local swapchain_image_index of vulkan_frame_draw
    calls,           \* history: driver calls of the current frame, in order
    commands,        \* what is recorded in vulkan.command_buffer
    frames,          \* frames started
    failed,          \* frames for which vulkan_frame_draw returned false
    lastFrame,       \* history: how the previous frame ended
    shouldClose,     \* glfwWindowShouldClose
    success,         \* main's exit status
    mainloop_result, \* what application_mainloop returned: "none" | "true" | "false"
    destroy_runs,    \* times application_destroy ran
    teardown_calls,  \* history: the calls application_destroy made, with the
                     \* parent handle each was made through
    driver,          \* the machine: what the driver and the window system report
    create_infos,    \* history: descriptors handed to vkCreateInstance,
                     \* vkCreateDevice and vkCreateSwapchainKHR
    file_io          \* one call of file_read: what the C library answers, what
                     \* the caller's out-parameters held, and what the call did

vars == <<pc, vulkan, glfw, created, destroyed, stages, enums, shaders, fence,
          gpuPending, imageAvailable, renderFinished, presentPending, held,
          actualImages, image_index, calls, commands, frames, failed, lastFrame,
          shouldClose, success, mainloop_result, destroy_runs, teardown_calls,
          driver,
          create_infos, file_io>>

gpuVars == <<fence, gpuPending, imageAvailable, renderFinished, presentPending,
             held, actualImages>>
loopVars == <<image_index, calls, frames, failed, lastFrame, shouldClose,
              mainloop_result>>
exitVars == <<destroyed, success, destroy_runs>>

Min(a, b) == IF a < b THEN a ELSE b

\* ------------------------------------------------------------------ driver lists
\* A driver-reported list: explicit entries `head`, then `pad` copies of `fill`.
ListLen(l) == Len(l.head) + l.pad
ListItem(l, i) == IF i < Len(l.head) THEN l.head[i + 1] ELSE l.fill

Heads(items) == UNION {[1..n -> items] : n \in 0..MaxHead}
Pads == {0, MAX_TMP_BUFFER - 1, MAX_TMP_BUFFER, MAX_TMP_BUFFER + 1}
Lists(items, fill) == [head : Heads(items), pad : Pads, fill : {fill}]

\* second call of a vkEnumerate*/vkGet* pair: at most `count` entries are written
Fill(l, count) == [i \in 0..(Min(count, ListLen(l)) - 1) |-> ListItem(l, i)]
Yielded(buffer) == Cardinality(DOMAIN buffer)

OutOfBoundsOff(count) == count >= MAX_TMP_BUFFER
\* the capacity test made after every count query
OutOfBounds(count) == count > MAX_TMP_BUFFER

\* yielded = -1: the list was never read into the buffer
\* names: the distinct names that were read, for the lists that are searched
\* by name
EnumEntry(kind, l, y) ==
    [kind |-> kind, L |-> ListLen(l), yielded |-> y,
     names |-> IF kind \in {"layers", "extensions"}
               THEN {ListItem(l, i) : i \in 0..(y - 1)} ELSE {}]

FirstIndexHighest(hits) ==
    IF hits = {} THEN -1
    ELSE CHOOSE i \in hits : \A j \in hits : i >= j
\* a scan that stops at its first hit: the lowest of the matching indices, or -1
FirstIndex(hits) ==
    IF hits = {} THEN -1
    ELSE CHOOSE i \in hits : \A j \in hits : i <= j

LayerLists == Lists({"VK_LAYER_KHRONOS_validation", "VK_LAYER_other"}, "VK_LAYER_other")
DeviceLists == Lists({1}, 1)
\* one queue family: whether it has VK_QUEUE_GRAPHICS_BIT, and whether
\* vkGetPhysicalDeviceSurfaceSupportKHR reports it can present to the surface
QueueFamily == [graphics : BOOLEAN, present : BOOLEAN]
\* the physical device's families, any number of families without either
\* capability after them
QueueFamilyLists ==
    [head : {driver.queuefamilies}, pad : Pads,
     fill : {[graphics |-> FALSE, present |-> FALSE]}]
ExtensionLists == Lists({"VK_KHR_swapchain", "VK_other"}, "VK_other")
SurfaceFormat ==
    [format : {"B8G8R8A8_SRGB", "R8G8B8A8_UNORM"},
     colorSpace : {"SRGB_NONLINEAR", "EXTENDED_SRGB_LINEAR"}]
\* the surface's formats, any number of other formats after them
FormatLists ==
    [head : {driver.surface_formats}, pad : Pads,
     fill : {[format |-> "R8G8B8A8_UNORM", colorSpace |-> "SRGB_NONLINEAR"]}]
PresentModeLists == Lists({"FIFO"}, "FIFO")

\* ------------------------------------------------------------------ the machine
\* sequences of at most n items
SeqsUpTo(items, n) == UNION {[1..k -> items] : k \in 0..n}

Extent(w, h) == [width |-> w, height |-> h]
\* currentExtent when the surface takes its size from the swapchain
UndefinedExtent == Extent(UINT32_MAX, UINT32_MAX)

\* surface capabilities the frame-loop model is run with: the surface has the
\* size of the window (the other extents are among the wider range of machines)
SurfaceCaps ==
    { c \in [ minImageCount : (1..MaxMinImages) \cup {MAX_SWAPCHAIN_IMAGES + 1},
              maxImageCount : {0, MaxMinImages},
              currentExtent : {[width |-> CONFIG_WIDTH, height |-> CONFIG_HEIGHT]},
              minImageExtent : {[width |-> 1, height |-> 1]},
              maxImageExtent : {[width |-> 4096, height |-> 4096]} ] :
        c.maxImageCount = 0 \/ c.maxImageCount >= c.minImageCount }

\* the machines the whole program is run on: at most one queue family and one
\* surface format ahead of the padding, the framebuffer as large as the window
\* that was asked for
Drivers ==
    [ queuefamilies : SeqsUpTo(QueueFamily, 1),
      surface_formats : SeqsUpTo(SurfaceFormat, 1),
      surface_capabilities : SurfaceCaps,
      framebuffer : {Extent(CONFIG_WIDTH, CONFIG_HEIGHT)} ]

\* a machine on which every stage can succeed
NominalDriver ==
    [ queuefamilies |-> <<[graphics |-> TRUE, present |-> TRUE]>>,
      surface_formats |->
          <<[format |-> "B8G8R8A8_SRGB", colorSpace |-> "SRGB_NONLINEAR"]>>,
      surface_capabilities |->
          [ minImageCount |-> 2, maxImageCount |-> 0,
            currentExtent |-> UndefinedExtent,
            minImageExtent |-> Extent(1, 1),
            maxImageExtent |-> Extent(4096, 4096) ],
      framebuffer |-> Extent(CONFIG_WIDTH, CONFIG_HEIGHT) ]

\* image-count limits a conforming driver may report: maxImageCount is 0 (no
\* limit) or at least minImageCount
ImageCountCases ==
    { c \in [minImageCount : {1, 2, 9, 10, 11}, maxImageCount : {0, 2, 3, 10, 12}] :
        c.maxImageCount = 0 \/ c.maxImageCount >= c.minImageCount }

\* surface extents and framebuffer sizes: below, inside and above the limits
ExtentCases ==
    { c \in [ currentExtent : {UndefinedExtent, Extent(1280, 720), Extent(5000, 3000)},
              minImageExtent : {Extent(1, 1), Extent(1280, 720)},
              maxImageExtent : {Extent(1280, 720), Extent(4096, 4096)},
              framebuffer : {Extent(800, 600), Extent(1280, 720), Extent(5000, 5000)} ] :
        /\ c.minImageExtent.width <= c.maxImageExtent.width
        /\ c.minImageExtent.height <= c.maxImageExtent.height }

\* the machines application_create is run on alone: the nominal one with its
\* queue families, its surface formats, its image-count limits or its extents
\* replaced
WideDrivers ==
    {[NominalDriver EXCEPT !.queuefamilies = f] : f \in SeqsUpTo(QueueFamily, MaxFamilies)}
    \cup {[NominalDriver EXCEPT !.surface_formats = f] :
                f \in SeqsUpTo(SurfaceFormat, MaxFormats)}
    \cup {[NominalDriver EXCEPT
                !.surface_capabilities.minImageCount = c.minImageCount,
                !.surface_capabilities.maxImageCount = c.maxImageCount] :
                c \in ImageCountCases}
    \cup {[NominalDriver EXCEPT
                !.surface_capabilities.currentExtent = c.currentExtent,
                !.surface_capabilities.minImageExtent = c.minImageExtent,
                !.surface_capabilities.maxImageExtent = c.maxImageExtent,
                !.framebuffer = c.framebuffer] : c \in ExtentCases}

\* ------------------------------------------------------------------ initial state
Images == 0..(MAX_SWAPCHAIN_IMAGES - 1)

ZeroVulkan ==
    [ enable_validation_layers |-> FALSE,
      window |-> 0, instance |-> 0, surface |-> 0, physicaldevice |-> 0,
      device |-> 0, swapchain |-> 0, render_pass |-> 0, pipeline_layout |-> 0,
      graphics_pipeline |-> 0, command_pool |-> 0, command_buffer |-> 0,
      swapchain_image_format |-> "UNDEFINED",
      swapchain_extent |-> [width |-> 0, height |-> 0],
      swapchain_images |-> [i \in Images |-> 0], swapchain_images_count |-> 0,
      swapchain_imageviews |-> [i \in Images |-> 0], swapchain_imageviews_count |-> 0,
      swapchain_framebuffers |-> [i \in Images |-> 0], swapchain_framebuffers_count |-> 0,
      graphics_queuefamily_index |-> 0, graphics_queue |-> 0,
      present_queuefamily_index |-> 0, present_queue |-> 0,
      swapchain_image_available |-> 0, render_finished |-> 0, frame_in_flight |-> 0 ]

\* nothing handed to vkCreateInstance, vkCreateDevice or vkCreateSwapchainKHR yet
NoCreateInfos ==
    [ instance |-> [called |-> FALSE, enabledLayerCount |-> 0,
                    ppEnabledLayerNames |-> {}],
      device |-> [called |-> FALSE, queueCreateInfoCount |-> 0,
                  queueFamilyIndex |-> <<>>],
      swapchain |-> [called |-> FALSE, minImageCount |-> 0,
                     imageFormat |-> "UNDEFINED", imageColorSpace |-> "UNDEFINED",
                     imageExtent |-> Extent(0, 0),
                     imageSharingMode |-> "UNDEFINED",
                     queueFamilyIndexCount |-> 0, pQueueFamilyIndices |-> <<>>] ]

NoShaders ==
    [ vertex_shader_code |-> [acquired |-> 0, released |-> 0],
      fragment_shader_code |-> [acquired |-> 0, released |-> 0],
      vertex_shadermodule |-> [acquired |-> 0, released |-> 0],
      fragment_shadermodule |-> [acquired |-> 0, released |-> 0],
      failed_step |-> "not_run", result |-> FALSE ]

\* main before application_create
Start ==
    /\ pc = "glfwInit"
    /\ vulkan = ZeroVulkan
    /\ glfw = [inited |-> FALSE, window |-> 0]
    /\ created = <<>>
    /\ destroyed = <<>>
    /\ stages = <<>>
    /\ enums = <<>>
    /\ shaders = NoShaders
    /\ fence = "none"
    /\ gpuPending = 0
    /\ imageAvailable = 0
    /\ renderFinished = 0
    /\ presentPending = 0
    /\ held = 0
    /\ actualImages = 0
    /\ image_index = 0
    /\ calls = <<>>
    /\ commands = <<>>
    /\ frames = 0
    /\ failed = 0
    /\ lastFrame = "none"
    /\ shouldClose = FALSE
    /\ success = "EXIT_FAILURE"
    /\ mainloop_result = "none"
    /\ destroy_runs = 0
    /\ teardown_calls = <<>>
    /\ create_infos = NoCreateInfos

\* pointers: 0 is nullptr, 1 a buffer the caller had before, 2 the one malloc
\* returns
NewBuffer == 2

\* file_read before it ran
NoFileResult ==
    [ success |-> FALSE, content |-> 0, content_size |-> 0,
      allocated |-> 0, freed |-> 0, fclose_open |-> 0, fclose_null |-> 0 ]

\* what a call of file_read can meet: the answers of fopen, fseek, ftell
\* (-1 on failure, the size otherwise), malloc and fread, and the values
\* *content and *content_size hold on entry
FileCalls ==
    [ fopen_ok : BOOLEAN, fseek_ok : BOOLEAN,
      ftell : {-1} \cup (0..MaxFileSize),
      malloc_ok : BOOLEAN, fread_ok : BOOLEAN,
      content : {0, 1}, content_size : {0, MaxFileSize + 1} ]

\* no call of file_read is looked at
NoFileIO ==
    [ pc |-> "idle",
      in |-> [ fopen_ok |-> FALSE, fseek_ok |-> FALSE, ftell |-> -1,
               malloc_ok |-> FALSE, fread_ok |-> FALSE,
               content |-> 0, content_size |-> 0 ],
      out |-> NoFileResult ]

Init == driver \in Drivers /\ Start /\ file_io = NoFileIO

\* file_read called on its own, in every environment of FileCalls
FileInit ==
    /\ driver = NominalDriver
    /\ Start
    /\ file_io \in [pc : {"called"}, in : FileCalls, out : {NoFileResult}]

\* the same start on the wider range of machines
WideInit == driver \in WideDrivers /\ Start /\ file_io = NoFileIO

\* ------------------------------------------------------------------ initialization
\* Order of the stages of application_create and vulkan_init.
StageOrder ==
    << "glfwInit", "glfwCreateWindow",
       "vulkan_instance_create", "vulkan_surface_create",
       "vulkan_physicaldevice_find", "vulkan_queuefamily_find",
       "vulkan_device_create", "vulkan_swapchain_create",
       "vulkan_imageviews_create", "vulkan_renderpass_create",
       "vulkan_graphicspipeline_create", "vulkan_framebuffers_create",
       "vulkan_commandpool_create", "vulkan_commandbuffer_allocate",
       "vulkan_synchronizationobjects_create" >>

StageIndex(s) == CHOOSE i \in 1..Len(StageOrder) : StageOrder[i] = s

AfterStageIgnoringFailure(stage, ok) ==
    IF stage = StageOrder[Len(StageOrder)] THEN "mainloop"
    ELSE StageOrder[StageIndex(stage) + 1]
\* where main goes after a stage returned `ok`: the next stage, the frame loop
\* after the last one, or straight to cleanup on the first failure
AfterStage(stage, ok) ==
    IF ~ok THEN "application_destroy"
    ELSE IF stage = StageOrder[Len(StageOrder)] THEN "mainloop"
    ELSE StageOrder[StageIndex(stage) + 1]

\* bookkeeping common to every stage
StageDone(stage, ok, enumerated) ==
    /\ pc' = AfterStage(stage, ok)
    /\ stages' = Append(stages, [stage |-> stage, ok |-> ok])
    /\ enums' = enumerated

Obj(kind, i) == <<kind, i>>

application_create_glfwInit ==
    /\ pc = "glfwInit"
    /\ \E ok \in BOOLEAN :
        /\ glfw' = [glfw EXCEPT !.inited = ok]
        /\ StageDone("glfwInit", ok, <<>>)
    /\ UNCHANGED <<driver, file_io, teardown_calls, commands, create_infos, vulkan, created, shaders, gpuVars, loopVars, exitVars>>

application_create_window ==
    /\ pc = "glfwCreateWindow"
    /\ \E ok \in BOOLEAN, debug \in BOOLEAN :
        /\ glfw' = [glfw EXCEPT !.window = IF ok THEN 1 ELSE 0]
        /\ vulkan' = IF ok
                     THEN [vulkan EXCEPT !.window = 1,
                                         !.enable_validation_layers = debug]
                     ELSE vulkan
        /\ StageDone("glfwCreateWindow", ok, <<>>)
    /\ UNCHANGED <<driver, file_io, teardown_calls, commands, create_infos, created, shaders, gpuVars, loopVars, exitVars>>

RequestedLayers == {"VK_LAYER_KHRONOS_validation"}

vulkan_validationlayers_checkLenient(layers) ==
    LET layer_count == ListLen(layers)
        available_layers == Fill(layers, layer_count)
    IN IF OutOfBounds(layer_count)
       THEN [ok |-> FALSE, enums |-> <<EnumEntry("layers", layers, -1)>>]
       ELSE [ok |-> TRUE,
             enums |-> <<EnumEntry("layers", layers, Yielded(available_layers))>>]
\* every requested layer must be among the layers read; called only when
\* enable_validation_layers is set
vulkan_validationlayers_check(layers) ==
    LET layer_count == ListLen(layers)
        available_layers == Fill(layers, layer_count)
    IN IF OutOfBounds(layer_count)
       THEN [ok |-> FALSE, enums |-> <<EnumEntry("layers", layers, -1)>>]
       ELSE [ok |-> \A r \in RequestedLayers :
                        \E j \in DOMAIN available_layers : available_layers[j] = r,
             enums |-> <<EnumEntry("layers", layers, Yielded(available_layers))>>]

vulkan_instance_create ==
    /\ pc = "vulkan_instance_create"
    /\ \E layers \in LayerLists, driver_ok \in BOOLEAN :
        LET check == vulkan_validationlayers_check(layers)
            layers_ok == ~vulkan.enable_validation_layers \/ check.ok
            ok == layers_ok /\ driver_ok
        IN /\ create_infos' =
                IF layers_ok
                THEN [create_infos EXCEPT !.instance =
                        [ called |-> TRUE,
                          enabledLayerCount |->
                              IF vulkan.enable_validation_layers
                              THEN Cardinality(RequestedLayers) ELSE 0,
                          ppEnabledLayerNames |->
                              IF vulkan.enable_validation_layers
                              THEN RequestedLayers ELSE {} ]]
                ELSE create_infos
           /\ vulkan' = IF ok THEN [vulkan EXCEPT !.instance = 1] ELSE vulkan
           /\ created' = IF ok THEN Append(created, Obj("instance", 0)) ELSE created
           /\ StageDone("vulkan_instance_create", ok,
                        IF vulkan.enable_validation_layers THEN check.enums ELSE <<>>)
    /\ UNCHANGED <<driver, file_io, teardown_calls, commands, glfw, shaders, gpuVars, loopVars, exitVars>>

vulkan_surface_create ==
    /\ pc = "vulkan_surface_create"
    /\ \E ok \in BOOLEAN :
        /\ vulkan' = IF ok THEN [vulkan EXCEPT !.surface = 1] ELSE vulkan
        /\ created' = IF ok THEN Append(created, Obj("surface", 0)) ELSE created
        /\ StageDone("vulkan_surface_create", ok, <<>>)
    /\ UNCHANGED <<driver, file_io, teardown_calls, commands, create_infos, glfw, shaders, gpuVars, loopVars, exitVars>>

vulkan_physicaldevice_find ==
    /\ pc = "vulkan_physicaldevice_find"
    /\ \E list \in DeviceLists :
        LET device_count == ListLen(list)
            ok == device_count # 0 /\ ~OutOfBounds(device_count)
            devices == Fill(list, device_count)
        IN /\ vulkan' = IF ok THEN [vulkan EXCEPT !.physicaldevice = devices[0]]
                        ELSE vulkan
           /\ StageDone("vulkan_physicaldevice_find", ok,
                        <<EnumEntry("devices", list,
                                    IF ok THEN Yielded(devices) ELSE -1)>>)
    /\ UNCHANGED <<driver, file_io, teardown_calls, commands, create_infos, glfw, created, shaders, gpuVars, loopVars, exitVars>>

HasGraphics(family) == family.graphics
HasPresent(family) == family.present

vulkan_queuefamily_find ==
    /\ pc = "vulkan_queuefamily_find"
    /\ \E list \in QueueFamilyLists :
        LET queuefamily_count == ListLen(list)
            bounded == ~OutOfBounds(queuefamily_count)
            queuefamilies == Fill(list, queuefamily_count)
            g == FirstIndex({i \in DOMAIN queuefamilies : HasGraphics(queuefamilies[i])})
            p == FirstIndex({i \in DOMAIN queuefamilies : HasPresent(queuefamilies[i])})
            ok == bounded /\ g # -1 /\ p # -1
        IN /\ vulkan' =
                IF ~bounded THEN vulkan
                ELSE [vulkan EXCEPT
                        !.graphics_queuefamily_index = IF g # -1 THEN g ELSE @,
                        !.present_queuefamily_index = IF p # -1 THEN p ELSE @]
           /\ StageDone("vulkan_queuefamily_find", ok,
                        <<EnumEntry("queuefamilies", list,
                                    IF bounded THEN Yielded(queuefamilies)
                                    ELSE -1)>>)
    /\ UNCHANGED <<driver, file_io, teardown_calls, commands, create_infos, glfw, created, shaders, gpuVars, loopVars, exitVars>>

IsSwapchainExtension(name) == name = "VK_KHR_swapchain"

QueueFamilyIndicesBoth(graphics, present) == <<graphics, present>>
\* the two-element arrays of vulkan_device_create and vulkan_swapchain_create,
\* cut to one element when both hold the same family index
QueueFamilyIndices(graphics, present) ==
    IF graphics = present THEN <<graphics>> ELSE <<graphics, present>>

vulkan_device_create ==
    /\ pc = "vulkan_device_create"
    /\ \E list \in ExtensionLists, driver_ok \in BOOLEAN :
        LET extension_count == ListLen(list)
            bounded == ~OutOfBounds(extension_count)
            available_extensions == Fill(list, extension_count)
            found_swapchain_extension ==
                \E i \in DOMAIN available_extensions :
                    IsSwapchainExtension(available_extensions[i])
            ok == bounded /\ found_swapchain_extension /\ driver_ok
            queue_create_infos ==
                QueueFamilyIndices(vulkan.graphics_queuefamily_index,
                                   vulkan.present_queuefamily_index)
        IN /\ create_infos' =
                IF bounded /\ found_swapchain_extension
                THEN [create_infos EXCEPT !.device =
                        [ called |-> TRUE,
                          queueCreateInfoCount |-> Len(queue_create_infos),
                          queueFamilyIndex |-> queue_create_infos ]]
                ELSE create_infos
           /\ vulkan' = IF ok
                        THEN [vulkan EXCEPT !.device = 1, !.graphics_queue = 1,
                                            !.present_queue = 1]
                        ELSE vulkan
           /\ created' = IF ok THEN Append(created, Obj("device", 0)) ELSE created
           /\ StageDone("vulkan_device_create", ok,
                        <<EnumEntry("extensions", list,
                                    IF bounded THEN Yielded(available_extensions)
                                    ELSE -1)>>)
    /\ UNCHANGED <<driver, file_io, teardown_calls, commands, glfw, shaders, gpuVars, loopVars, exitVars>>

\* ------------------------------------------------------------------ swapchain
IsRequiredFormatAnyColorSpace(f) == f.format = "B8G8R8A8_SRGB"
IsRequiredFormat(f) == f.format = "B8G8R8A8_SRGB" /\ f.colorSpace = "SRGB_NONLINEAR"

ChooseExtentClamped(caps, width, height) ==
    LET source == IF caps.currentExtent.width # UINT32_MAX
                  THEN caps.currentExtent ELSE Extent(width, height)
    IN [ width |-> IF source.width < caps.minImageExtent.width
                        THEN caps.minImageExtent.width
                   ELSE IF source.width > caps.maxImageExtent.width
                        THEN caps.maxImageExtent.width
                   ELSE source.width,
         height |-> IF source.height < caps.minImageExtent.height
                         THEN caps.minImageExtent.height
                    ELSE IF source.height > caps.minImageExtent.height
                         THEN caps.maxImageExtent.height
                    ELSE source.height ]
\* lines 453-479, as written: the second height comparison is against min
ChooseExtent(caps, width, height) ==
    IF caps.currentExtent.width # UINT32_MAX THEN caps.currentExtent
    ELSE [ width |-> IF width < caps.minImageExtent.width
                          THEN caps.minImageExtent.width
                     ELSE IF width > caps.maxImageExtent.width
                          THEN caps.maxImageExtent.width
                     ELSE width,
           height |-> IF height < caps.minImageExtent.height
                           THEN caps.minImageExtent.height
                      ELSE IF height > caps.minImageExtent.height
                           THEN caps.maxImageExtent.height
                      ELSE height ]

ChooseImageCountIgnoringMax(caps) ==
    IF caps.minImageCount > MAX_SWAPCHAIN_IMAGES THEN -1
    ELSE IF caps.minImageCount + 1 > MAX_SWAPCHAIN_IMAGES THEN MAX_SWAPCHAIN_IMAGES
    ELSE caps.minImageCount + 1
ChooseImageCountNoCeiling(caps) ==
    IF caps.minImageCount > MAX_SWAPCHAIN_IMAGES THEN -1
    ELSE IF caps.maxImageCount > 0 /\ caps.minImageCount + 1 > caps.maxImageCount
    THEN caps.maxImageCount ELSE caps.minImageCount + 1
\* lines 481-496; -1 when the minimum alone exceeds MAX_SWAPCHAIN_IMAGES
ChooseImageCount(caps) ==
    IF caps.minImageCount > MAX_SWAPCHAIN_IMAGES THEN -1
    ELSE LET wanted == caps.minImageCount + 1
             capped == IF caps.maxImageCount > 0 /\ wanted > caps.maxImageCount
                       THEN caps.maxImageCount ELSE wanted
         IN IF capped > MAX_SWAPCHAIN_IMAGES THEN MAX_SWAPCHAIN_IMAGES ELSE capped

vulkan_swapchain_create ==
    /\ pc = "vulkan_swapchain_create"
    /\ \E formats \in FormatLists, modes \in PresentModeLists,
          driver_ok \in BOOLEAN :
        LET caps == driver.surface_capabilities
            surface_format_count == ListLen(formats)
            formats_ok == surface_format_count # 0 /\ ~OutOfBounds(surface_format_count)
            surface_formats == Fill(formats, surface_format_count)
            present_mode_count == ListLen(modes)
            modes_ok == present_mode_count # 0 /\ ~OutOfBounds(present_mode_count)
            present_modes == Fill(modes, present_mode_count)
            found == FirstIndex({i \in DOMAIN surface_formats :
                                    IsRequiredFormat(surface_formats[i])})
            image_extent ==
                ChooseExtent(caps, driver.framebuffer.width, driver.framebuffer.height)
            image_count == ChooseImageCount(caps)
            queue_family_indices ==
                QueueFamilyIndices(vulkan.graphics_queuefamily_index,
                                   vulkan.present_queuefamily_index)
            \* every test ahead of vkCreateSwapchainKHR passed
            called == formats_ok /\ modes_ok /\ found # -1 /\ image_count # -1
            ok == called /\ driver_ok
            \* images the driver may create beyond minImageCount
            extras == IF ok THEN 0..MaxExtraImages ELSE {0}
        IN /\ create_infos' =
                IF called
                THEN [create_infos EXCEPT !.swapchain =
                        [ called |-> TRUE,
                          minImageCount |-> image_count,
                          imageFormat |-> surface_formats[found].format,
                          imageColorSpace |-> surface_formats[found].colorSpace,
                          imageExtent |-> image_extent,
                          imageSharingMode |->
                              IF Len(queue_family_indices) > 1
                              THEN "CONCURRENT" ELSE "EXCLUSIVE",
                          queueFamilyIndexCount |->
                              IF Len(queue_family_indices) > 1
                              THEN Len(queue_family_indices) ELSE 0,
                          pQueueFamilyIndices |->
                              IF Len(queue_family_indices) > 1
                              THEN queue_family_indices ELSE <<>> ]]
                ELSE create_infos
           /\ \E extra \in extras :
                \* vkGetSwapchainImagesKHR: image_count is the capacity passed in
                LET got == Min(image_count, image_count + extra)
                IN /\ vulkan' =
                        IF ok
                        THEN [vulkan EXCEPT
                                !.swapchain = 1,
                                !.swapchain_images =
                                    [i \in Images |-> IF i < got THEN 1 ELSE @[i]],
                                !.swapchain_images_count = got,
                                !.swapchain_image_format = surface_formats[found].format,
                                !.swapchain_extent = image_extent]
                        ELSE vulkan
                   /\ actualImages' = IF ok THEN image_count + extra ELSE actualImages
           /\ created' = IF ok THEN Append(created, Obj("swapchain", 0)) ELSE created
           /\ StageDone("vulkan_swapchain_create", ok,
                <<EnumEntry("surface_formats", formats,
                            IF formats_ok THEN Yielded(surface_formats) ELSE -1)>>
                \o (IF formats_ok
                    THEN <<EnumEntry("present_modes", modes,
                                     IF modes_ok THEN Yielded(present_modes) ELSE -1)>>
                    ELSE <<>>))
    /\ UNCHANGED <<driver, file_io, teardown_calls, commands, glfw, shaders, fence, gpuPending, imageAvailable,
                   renderFinished, presentPending, held, loopVars, exitVars>>

\* ------------------------------------------------------------------ per-image sets
\* objects Obj(kind, 0) .. Obj(kind, n-1) in index order
ObjRun(kind, n) == [i \in 1..n |-> Obj(kind, i - 1)]

SetCountDropsLast(old, n, failAt) ==
    IF failAt = n THEN (IF n > 0 THEN n - 1 ELSE 0) ELSE old
SetCountPartial(old, n, failAt) == failAt
\* the count field after the loop over n items whose failAt-th creation failed
\* (none when failAt = n): assigned after the loop, which a failure returns from
SetCount(old, n, failAt) == IF failAt = n THEN n ELSE old

vulkan_imageviews_create ==
    /\ pc = "vulkan_imageviews_create"
    /\ \E failAt \in 0..vulkan.swapchain_images_count :
        LET n == vulkan.swapchain_images_count
            ok == failAt = n
        IN /\ vulkan' =
                [vulkan EXCEPT
                    !.swapchain_imageviews =
                        [i \in Images |-> IF i < failAt THEN 1 ELSE @[i]],
                    !.swapchain_imageviews_count = SetCount(@, n, failAt)]
           /\ created' = created \o ObjRun("imageview", failAt)
           /\ StageDone("vulkan_imageviews_create", ok, <<>>)
    /\ UNCHANGED <<driver, file_io, teardown_calls, commands, create_infos, glfw, shaders, gpuVars, loopVars, exitVars>>

vulkan_renderpass_create ==
    /\ pc = "vulkan_renderpass_create"
    /\ \E ok \in BOOLEAN :
        /\ vulkan' = IF ok THEN [vulkan EXCEPT !.render_pass = 1] ELSE vulkan
        /\ created' = IF ok THEN Append(created, Obj("render_pass", 0)) ELSE created
        /\ StageDone("vulkan_renderpass_create", ok, <<>>)
    /\ UNCHANGED <<driver, file_io, teardown_calls, commands, create_infos, glfw, shaders, gpuVars, loopVars, exitVars>>

vulkan_framebuffers_create ==
    /\ pc = "vulkan_framebuffers_create"
    /\ \E failAt \in 0..vulkan.swapchain_imageviews_count :
        LET n == vulkan.swapchain_imageviews_count
            ok == failAt = n
        IN /\ vulkan' =
                [vulkan EXCEPT
                    !.swapchain_framebuffers =
                        [i \in Images |-> IF i < failAt THEN 1 ELSE @[i]],
                    !.swapchain_framebuffers_count = SetCount(@, n, failAt)]
           /\ created' = created \o ObjRun("framebuffer", failAt)
           /\ StageDone("vulkan_framebuffers_create", ok, <<>>)
    /\ UNCHANGED <<driver, file_io, teardown_calls, commands, create_infos, glfw, shaders, gpuVars, loopVars, exitVars>>

vulkan_commandpool_create ==
    /\ pc = "vulkan_commandpool_create"
    /\ \E ok \in BOOLEAN :
        /\ vulkan' = IF ok THEN [vulkan EXCEPT !.command_pool = 1] ELSE vulkan
        /\ created' = IF ok THEN Append(created, Obj("command_pool", 0)) ELSE created
        /\ StageDone("vulkan_commandpool_create", ok, <<>>)
    /\ UNCHANGED <<driver, file_io, teardown_calls, commands, create_infos, glfw, shaders, gpuVars, loopVars, exitVars>>

vulkan_commandbuffer_allocate ==
    /\ pc = "vulkan_commandbuffer_allocate"
    /\ \E ok \in BOOLEAN :
        /\ vulkan' = IF ok THEN [vulkan EXCEPT !.command_buffer = 1] ELSE vulkan
        /\ StageDone("vulkan_commandbuffer_allocate", ok, <<>>)
    /\ UNCHANGED <<driver, file_io, teardown_calls, commands, create_infos, glfw, created, shaders, gpuVars, loopVars, exitVars>>

\* the three creations of vulkan_synchronizationobjects_create, in order
SyncOrder == <<"swapchain_image_available", "render_finished", "frame_in_flight">>

FenceCreatedUnsignaled(flags) == "unsignaled"
\* the state vkCreateFence gives a fence
FenceCreated(flags) ==
    IF "VK_FENCE_CREATE_SIGNALED_BIT" \in flags THEN "signaled" ELSE "unsignaled"

vulkan_synchronizationobjects_create ==
    /\ pc = "vulkan_synchronizationobjects_create"
    /\ \E failAt \in 0..Len(SyncOrder) :
        LET ok == failAt = Len(SyncOrder)
        IN /\ vulkan' =
                [vulkan EXCEPT
                    !.swapchain_image_available = IF failAt >= 1 THEN 1 ELSE @,
                    !.render_finished = IF failAt >= 2 THEN 1 ELSE @,
                    !.frame_in_flight = IF failAt >= 3 THEN 1 ELSE @]
           /\ created' = created \o [i \in 1..failAt |-> Obj(SyncOrder[i], 0)]
           /\ fence' = IF failAt >= 3
                       THEN FenceCreated({"VK_FENCE_CREATE_SIGNALED_BIT"})
                       ELSE fence
           /\ StageDone("vulkan_synchronizationobjects_create", ok, <<>>)
    /\ UNCHANGED <<driver, file_io, teardown_calls, commands, create_infos, glfw, shaders, gpuPending, imageAvailable, renderFinished,
                   presentPending, held, actualImages, loopVars, exitVars>>

\* ------------------------------------------------------------------ pipeline
\* the fallible steps of vulkan_graphicspipeline_create, in order
PipelineSteps ==
    << "file_read_vertex", "file_read_fragment",
       "shadermodule_vertex", "shadermodule_fragment",
       "vkCreatePipelineLayout", "vkCreateGraphicsPipelines" >>

\* the step that fails when the failAt-th one does; "none" past the last
FailedStep(failAt) ==
    IF failAt <= Len(PipelineSteps) THEN PipelineSteps[failAt] ELSE "none"

ExitsThroughCleanupLayoutReturns(step) ==
    step \notin {"vkCreateGraphicsPipelines", "vkCreatePipelineLayout"}
\* every failure does `goto cleanup` except that of vkCreateGraphicsPipelines,
\* which does `return false`; success falls through into cleanup
ExitsThroughCleanup(step) == step # "vkCreateGraphicsPipelines"

\* one scoped resource: acquired when its step (the k-th) succeeded; the cleanup
\* block releases it once, and releasing a null handle or pointer does nothing
Scoped(k, failAt) ==
    LET acq == IF failAt > k THEN 1 ELSE 0
    IN [ acquired |-> acq,
         released |-> IF ExitsThroughCleanup(FailedStep(failAt)) THEN acq ELSE 0 ]

vulkan_graphicspipeline_create ==
    /\ pc = "vulkan_graphicspipeline_create"
    /\ \E failAt \in 1..(Len(PipelineSteps) + 1) :
        LET ok == failAt > Len(PipelineSteps)
            layout == failAt > 5
        IN /\ shaders' =
                [ vertex_shader_code |-> Scoped(1, failAt),
                  fragment_shader_code |-> Scoped(2, failAt),
                  vertex_shadermodule |-> Scoped(3, failAt),
                  fragment_shadermodule |-> Scoped(4, failAt),
                  failed_step |-> FailedStep(failAt),
                  result |-> ok ]
           /\ vulkan' = [vulkan EXCEPT
                            !.pipeline_layout = IF layout THEN 1 ELSE @,
                            !.graphics_pipeline = IF ok THEN 1 ELSE @]
           /\ created' = created
                \o (IF layout THEN <<Obj("pipeline_layout", 0)>> ELSE <<>>)
                \o (IF ok THEN <<Obj("graphics_pipeline", 0)>> ELSE <<>>)
           /\ StageDone("vulkan_graphicspipeline_create", ok, <<>>)
    /\ UNCHANGED <<driver, file_io, teardown_calls, commands, create_infos, glfw, gpuVars, loopVars, exitVars>>

\* ------------------------------------------------------------------ frame loop
FrameOrderAcquireFirst ==
    << "vkAcquireNextImageKHR", "vkWaitForFences", "vkResetFences",
       "vkResetCommandBuffer", "vulkan_commandbuffer_record",
       "vkQueueSubmit", "vkQueuePresentKHR" >>
\* the steps of vulkan_frame_draw, in the order of the source
FrameOrder ==
    << "vkWaitForFences", "vkResetFences", "vkAcquireNextImageKHR",
       "vkResetCommandBuffer", "vulkan_commandbuffer_record",
       "vkQueueSubmit", "vkQueuePresentKHR" >>

\* the step that follows `step` when it succeeded
StepAfter(step) ==
    FrameOrder[(CHOOSE i \in 1..Len(FrameOrder) : FrameOrder[i] = step) + 1]

\* application_mainloop: loop test, glfwPollEvents, then vulkan_frame_draw
mainloop_iterate ==
    /\ pc = "mainloop"
    /\ ~shouldClose
    /\ frames < MaxFrames
    /\ \E close \in BOOLEAN : shouldClose' = close
    /\ frames' = frames + 1
    /\ calls' = <<>>
    /\ pc' = FrameOrder[1]
    /\ UNCHANGED <<driver, file_io, teardown_calls, commands, create_infos, vulkan, glfw, created, stages, enums, shaders, gpuVars,
                   image_index, failed, lastFrame, mainloop_result, exitVars>>

\* main after application_mainloop returned
MainAfterLoop(returned) == IF returned THEN "EXIT_SUCCESS" ELSE "EXIT_FAILURE"

mainloop_exit ==
    /\ pc = "mainloop"
    /\ shouldClose
    /\ mainloop_result' = "true"
    /\ success' = MainAfterLoop(TRUE)
    /\ pc' = "application_destroy"
    /\ UNCHANGED <<driver, file_io, teardown_calls, commands, create_infos, vulkan, glfw, created, stages, enums, shaders, gpuVars,
                   image_index, calls, frames, failed, lastFrame, shouldClose,
                   destroyed, destroy_runs>>

FrameReturnCarriesOn(ok, outcome) ==
    /\ pc' = IF ok THEN "mainloop" ELSE "vkQueuePresentKHR"
    /\ failed' = IF ok THEN failed ELSE failed + 1
    /\ lastFrame' = outcome
    /\ image_index' = 0
FrameReturnFatal(ok, outcome) ==
    /\ pc' = IF ok THEN "mainloop" ELSE "application_destroy"
    /\ failed' = IF ok THEN failed ELSE failed + 1
    /\ lastFrame' = outcome
    /\ image_index' = 0
\* vulkan_frame_draw returned: the loop only logs a failure; the local
\* swapchain_image_index goes out of scope
FrameReturn(ok, outcome) ==
    /\ pc' = "mainloop"
    /\ failed' = IF ok THEN failed ELSE failed + 1
    /\ lastFrame' = outcome
    /\ image_index' = 0

\* a step of the frame succeeded: on to the next one
FrameContinue(step) ==
    /\ pc' = StepAfter(step)
    /\ UNCHANGED <<failed, lastFrame>>

WaitTimesOutNever(f) == FALSE
\* vkWaitForFences with timeout UINT32_MAX nanoseconds: VK_TIMEOUT after about
\* 4.3 s while the fence is unsignaled; the result is not looked at
WaitTimesOut(f) == f = "unsignaled"

frame_vkWaitForFences ==
    /\ pc = "vkWaitForFences"
    /\ fence = "signaled" \/ WaitTimesOut(fence)
    /\ calls' = Append(calls, "vkWaitForFences")
    /\ pc' = StepAfter("vkWaitForFences")
    /\ UNCHANGED <<driver, file_io, teardown_calls, commands, create_infos, vulkan, glfw, created, stages, enums, shaders, gpuVars,
                   image_index, frames, failed, lastFrame, shouldClose,
                   mainloop_result, exitVars>>

frame_vkResetFences ==
    /\ pc = "vkResetFences"
    /\ fence' = "unsignaled"
    /\ calls' = Append(calls, "vkResetFences")
    /\ pc' = StepAfter("vkResetFences")
    /\ UNCHANGED <<driver, file_io, teardown_calls, commands, create_infos, vulkan, glfw, created, stages, enums, shaders, gpuPending,
                   imageAvailable, renderFinished, presentPending, held,
                   actualImages, image_index, frames, failed, lastFrame,
                   shouldClose, mainloop_result, exitVars>>

\* indices vkAcquireNextImageKHR is taken to return for a swapchain of n
\* images: the lowest and the highest
AcquirableIndices(n) == {0, n - 1}

\* VK_SUCCESS and VK_SUBOPTIMAL_KHR both hand out an image and signal the
\* semaphore; only VK_SUCCESS lets the frame go on
frame_vkAcquireNextImageKHR ==
    /\ pc = "vkAcquireNextImageKHR"
    /\ calls' = Append(calls, "vkAcquireNextImageKHR")
    /\ \/ /\ held < actualImages
          /\ \E result \in {"VK_SUCCESS", "VK_SUBOPTIMAL_KHR"},
                index \in AcquirableIndices(actualImages) :
                /\ held' = held + 1
                /\ imageAvailable' = imageAvailable + 1
                /\ IF result = "VK_SUCCESS"
                   THEN /\ FrameContinue("vkAcquireNextImageKHR")
                        /\ image_index' = index
                   ELSE FrameReturn(FALSE, "failed_unarmed")
       \/ /\ FrameReturn(FALSE, "failed_unarmed")
          /\ UNCHANGED <<held, imageAvailable>>
    /\ UNCHANGED <<driver, file_io, teardown_calls, commands, create_infos, vulkan, glfw, created, stages, enums, shaders, fence, gpuPending,
                   renderFinished, presentPending, actualImages, frames,
                   shouldClose, mainloop_result, exitVars>>

frame_vkResetCommandBuffer ==
    /\ pc = "vkResetCommandBuffer"
    /\ calls' = Append(calls, "vkResetCommandBuffer")
    /\ \E ok \in BOOLEAN :
        /\ commands' = IF ok THEN <<>> ELSE commands
        /\ IF ok THEN FrameContinue("vkResetCommandBuffer") /\ UNCHANGED image_index
           ELSE FrameReturn(FALSE, "failed_unarmed")
    /\ UNCHANGED <<driver, file_io, teardown_calls, create_infos, vulkan, glfw, created, stages, enums, shaders, gpuVars,
                   frames, shouldClose, mainloop_result, exitVars>>

\* the commands of vulkan_commandbuffer_record after vkBeginCommandBuffer
RecordedCommands ==
    << "vkCmdBeginRenderPass", "vkCmdBindPipeline", "vkCmdSetViewport",
       "vkCmdSetScissor", "vkCmdDraw", "vkCmdEndRenderPass", "vkEndCommandBuffer" >>

\* what swapchain_framebuffers[framebuffer_index] evaluates to: the slot, or
\* anything at all when the index lies outside the array
FramebufferRead(v, framebuffer_index) ==
    IF framebuffer_index \in Images
    THEN {v.swapchain_framebuffers[framebuffer_index]}
    ELSE {0, 1}

DrawInstanced(vertexCount, instanceCount) ==
    [cmd |-> "vkCmdDraw", vertexCount |-> vertexCount,
     instanceCount |-> instanceCount, firstVertex |-> 0, firstInstance |-> 0]

CommandsFirstFramebuffer(v, framebuffer_index, framebuffer) ==
    << [cmd |-> "vkCmdBeginRenderPass", renderPass |-> v.render_pass,
        framebuffer_index |-> 0, framebuffer |-> v.swapchain_framebuffers[0],
        extent |-> v.swapchain_extent],
       [cmd |-> "vkCmdBindPipeline", pipeline |-> v.graphics_pipeline],
       [cmd |-> "vkCmdSetViewport", extent |-> v.swapchain_extent],
       [cmd |-> "vkCmdSetScissor", extent |-> v.swapchain_extent],
       DrawInstanced(3, 1),
       [cmd |-> "vkCmdEndRenderPass"] >>
\* the vkCmd* commands vulkan_commandbuffer_record puts into the buffer
Commands(v, framebuffer_index, framebuffer) ==
    << [cmd |-> "vkCmdBeginRenderPass", renderPass |-> v.render_pass,
        framebuffer_index |-> framebuffer_index, framebuffer |-> framebuffer,
        extent |-> v.swapchain_extent],
       [cmd |-> "vkCmdBindPipeline", pipeline |-> v.graphics_pipeline],
       [cmd |-> "vkCmdSetViewport", extent |-> v.swapchain_extent],
       [cmd |-> "vkCmdSetScissor", extent |-> v.swapchain_extent],
       DrawInstanced(3, 1),
       [cmd |-> "vkCmdEndRenderPass"] >>

frame_vulkan_commandbuffer_record ==
    /\ pc = "vulkan_commandbuffer_record"
    /\ \E begin_ok \in BOOLEAN, end_ok \in BOOLEAN,
          framebuffer \in FramebufferRead(vulkan, image_index) :
        /\ calls' = calls \o <<"vkBeginCommandBuffer">>
                          \o (IF begin_ok THEN RecordedCommands ELSE <<>>)
        /\ commands' = IF begin_ok
                       THEN Commands(vulkan, image_index, framebuffer)
                       ELSE commands
        /\ IF begin_ok /\ end_ok
           THEN FrameContinue("vulkan_commandbuffer_record") /\ UNCHANGED image_index
           ELSE FrameReturn(FALSE, "failed_unarmed")
    /\ UNCHANGED <<driver, file_io, teardown_calls, create_infos, vulkan, glfw, created, stages, enums, shaders, gpuVars,
                   frames, shouldClose, mainloop_result, exitVars>>

frame_vkQueueSubmit ==
    /\ pc = "vkQueueSubmit"
    /\ calls' = Append(calls, "vkQueueSubmit")
    /\ \E ok \in BOOLEAN :
        /\ gpuPending' = IF ok THEN gpuPending + 1 ELSE gpuPending
        /\ IF ok THEN FrameContinue("vkQueueSubmit") /\ UNCHANGED image_index
           ELSE FrameReturn(FALSE, "failed_unarmed")
    /\ UNCHANGED <<driver, file_io, teardown_calls, commands, create_infos, vulkan, glfw, created, stages, enums, shaders, fence,
                   imageAvailable, renderFinished, presentPending, held,
                   actualImages, frames, shouldClose, mainloop_result, exitVars>>

\* VK_SUBOPTIMAL_KHR and VK_ERROR_OUT_OF_DATE_KHR still queue the request, but
\* are not VK_SUCCESS
frame_vkQueuePresentKHR ==
    /\ pc = "vkQueuePresentKHR"
    /\ calls' = Append(calls, "vkQueuePresentKHR")
    /\ \E result \in {"VK_SUCCESS", "VK_SUBOPTIMAL_KHR", "VK_ERROR_DEVICE_LOST"} :
        /\ presentPending' = IF result = "VK_ERROR_DEVICE_LOST"
                             THEN presentPending ELSE presentPending + 1
        /\ FrameReturn(result = "VK_SUCCESS",
                       IF result = "VK_SUCCESS" THEN "presented" ELSE "failed_armed")
    /\ UNCHANGED <<driver, file_io, teardown_calls, commands, create_infos, vulkan, glfw, created, stages, enums, shaders, fence, gpuPending,
                   imageAvailable, renderFinished, held, actualImages,
                   frames, shouldClose, mainloop_result, exitVars>>

\* ------------------------------------------------------------------ the GPU
\* a submission retires: it has waited on image-available, signals
\* render-finished and signals the fence given to vkQueueSubmit
gpu_retire ==
    /\ destroy_runs = 0
    /\ gpuPending > 0
    /\ imageAvailable > 0
    /\ gpuPending' = gpuPending - 1
    /\ imageAvailable' = imageAvailable - 1
    /\ renderFinished' = renderFinished + 1
    /\ fence' = "signaled"
    /\ UNCHANGED <<driver, file_io, teardown_calls, commands, create_infos, pc, vulkan, glfw, created, stages, enums, shaders,
                   presentPending, held, actualImages, loopVars, exitVars>>

\* the presentation engine executes a queued present: it waits on
\* render-finished and takes the image back
gpu_present ==
    /\ destroy_runs = 0
    /\ presentPending > 0
    /\ renderFinished > 0
    /\ presentPending' = presentPending - 1
    /\ renderFinished' = renderFinished - 1
    /\ held' = IF held > 0 THEN held - 1 ELSE held
    /\ UNCHANGED <<driver, file_io, teardown_calls, commands, create_infos, pc, vulkan, glfw, created, stages, enums, shaders, fence,
                   gpuPending, imageAvailable, actualImages, loopVars, exitVars>>

\* ------------------------------------------------------------------ teardown
\* a vkDestroy* call: recorded when the handle is not null
Destroy(handle, kind, i) == IF handle # 0 THEN <<Obj(kind, i)>> ELSE <<>>

RECURSIVE DestroyArray(_, _, _, _)
\* for (i = from; i < count; i++) vkDestroy*(array[i])
DestroyArray(array, kind, from, count) ==
    IF from >= count THEN <<>>
    ELSE Destroy(array[from], kind, from) \o DestroyArray(array, kind, from + 1, count)

TeardownSequenceDeviceEarly(v) ==
       Destroy(v.swapchain_image_available, "swapchain_image_available", 0)
    \o Destroy(v.render_finished, "render_finished", 0)
    \o Destroy(v.frame_in_flight, "frame_in_flight", 0)
    \o Destroy(v.command_pool, "command_pool", 0)
    \o DestroyArray(v.swapchain_framebuffers, "framebuffer", 0,
                    v.swapchain_framebuffers_count)
    \o Destroy(v.graphics_pipeline, "graphics_pipeline", 0)
    \o Destroy(v.pipeline_layout, "pipeline_layout", 0)
    \o Destroy(v.render_pass, "render_pass", 0)
    \o Destroy(v.device, "device", 0)
    \o DestroyArray(v.swapchain_imageviews, "imageview", 0,
                    v.swapchain_imageviews_count)
    \o Destroy(v.swapchain, "swapchain", 0)
    \o Destroy(v.surface, "surface", 0)
    \o Destroy(v.instance, "instance", 0)
\* the destroy calls of application_destroy, in the order of lines 1294-1310
TeardownSequence(v) ==
       Destroy(v.swapchain_image_available, "swapchain_image_available", 0)
    \o Destroy(v.render_finished, "render_finished", 0)
    \o Destroy(v.frame_in_flight, "frame_in_flight", 0)
    \o Destroy(v.command_pool, "command_pool", 0)
    \o DestroyArray(v.swapchain_framebuffers, "framebuffer", 0,
                    v.swapchain_framebuffers_count)
    \o Destroy(v.graphics_pipeline, "graphics_pipeline", 0)
    \o Destroy(v.pipeline_layout, "pipeline_layout", 0)
    \o Destroy(v.render_pass, "render_pass", 0)
    \o DestroyArray(v.swapchain_imageviews, "imageview", 0,
                    v.swapchain_imageviews_count)
    \o Destroy(v.swapchain, "swapchain", 0)
    \o Destroy(v.device, "device", 0)
    \o Destroy(v.surface, "surface", 0)
    \o Destroy(v.instance, "instance", 0)

\* one call of application_destroy: `via` is the kind of parent it is made
\* through ("none" when it takes no parent), `parent` that handle, `handle`
\* the object handed over
Call(name, via, parent, handle) ==
    [call |-> name, via |-> via, parent |-> parent, handle |-> handle]

\* every call application_destroy makes, in order; none of them is conditional
TeardownCalls(v, g) ==
       << Call("vkDestroySemaphore", "device", v.device, v.swapchain_image_available),
          Call("vkDestroySemaphore", "device", v.device, v.render_finished),
          Call("vkDestroyFence", "device", v.device, v.frame_in_flight),
          Call("vkDestroyCommandPool", "device", v.device, v.command_pool) >>
    \o [i \in 1..v.swapchain_framebuffers_count |->
            Call("vkDestroyFramebuffer", "device", v.device,
                 v.swapchain_framebuffers[i - 1])]
    \o << Call("vkDestroyPipeline", "device", v.device, v.graphics_pipeline),
          Call("vkDestroyPipelineLayout", "device", v.device, v.pipeline_layout),
          Call("vkDestroyRenderPass", "device", v.device, v.render_pass) >>
    \o [i \in 1..v.swapchain_imageviews_count |->
            Call("vkDestroyImageView", "device", v.device,
                 v.swapchain_imageviews[i - 1])]
    \o << Call("vkDestroySwapchainKHR", "device", v.device, v.swapchain),
          Call("vkDestroyDevice", "none", 0, v.device),
          Call("vkDestroySurfaceKHR", "instance", v.instance, v.surface),
          Call("vkDestroyInstance", "none", 0, v.instance),
          Call("glfwDestroyWindow", "glfw", IF g.inited THEN 1 ELSE 0, g.window),
          Call("glfwTerminate", "glfw", IF g.inited THEN 1 ELSE 0, 0) >>

application_destroy ==
    /\ pc = "application_destroy"
    /\ destroyed' = destroyed \o TeardownSequence(vulkan)
    /\ teardown_calls' = teardown_calls \o TeardownCalls(vulkan, glfw)
    /\ destroy_runs' = destroy_runs + 1
    /\ fence' = IF vulkan.frame_in_flight # 0 THEN "none" ELSE fence
    /\ glfw' = [inited |-> FALSE, window |-> 0]
    /\ pc' = "exit"
    /\ UNCHANGED <<driver, file_io, commands, create_infos, vulkan, created, stages, enums, shaders, gpuPending,
                   imageAvailable, renderFinished, presentPending, held,
                   actualImages, loopVars, success>>

\* ------------------------------------------------------------------ file_read
\* the whole of file_read. The cleanup label is reached on every path, and
\* fclose(file) there is not guarded: after a failed fopen it is handed
\* nullptr, which the C library may survive or not.
file_read ==
    /\ file_io.pc = "called"
    /\ LET in == file_io.in
           opened == in.fopen_ok
           sized == opened /\ in.fseek_ok /\ in.ftell # -1
           has_buffer == sized /\ in.malloc_ok
           \* fread(read_buffer, file_size, 1, file) yields 1 only when one
           \* item of file_size bytes was read
           \* the local `success`
           succeeded == has_buffer /\ in.fread_ok /\ in.ftell > 0
       IN \E survives \in (IF opened THEN {TRUE} ELSE BOOLEAN) :
            file_io' =
                [file_io EXCEPT
                    !.pc = IF survives THEN "returned" ELSE "crashed",
                    !.out =
                        [ success |-> succeeded,
                          content |-> IF succeeded THEN NewBuffer ELSE in.content,
                          content_size |->
                              IF succeeded THEN in.ftell ELSE in.content_size,
                          allocated |-> IF has_buffer THEN 1 ELSE 0,
                          freed |-> IF has_buffer /\ ~succeeded THEN 1 ELSE 0,
                          fclose_open |-> IF opened THEN 1 ELSE 0,
                          fclose_null |-> IF opened THEN 0 ELSE 1 ]]
    /\ UNCHANGED <<pc, vulkan, glfw, created, stages, enums, shaders, gpuVars,
                   loopVars, commands, exitVars, teardown_calls, driver,
                   create_infos>>

\* ------------------------------------------------------------------ specification
Next ==
    \/ application_create_glfwInit
    \/ application_create_window
    \/ vulkan_instance_create
    \/ vulkan_surface_create
    \/ vulkan_physicaldevice_find
    \/ vulkan_queuefamily_find
    \/ vulkan_device_create
    \/ vulkan_swapchain_create
    \/ vulkan_imageviews_create
    \/ vulkan_renderpass_create
    \/ vulkan_graphicspipeline_create
    \/ vulkan_framebuffers_create
    \/ vulkan_commandpool_create
    \/ vulkan_commandbuffer_allocate
    \/ vulkan_synchronizationobjects_create
    \/ mainloop_iterate
    \/ mainloop_exit
    \/ frame_vkWaitForFences
    \/ frame_vkResetFences
    \/ frame_vkAcquireNextImageKHR
    \/ frame_vkResetCommandBuffer
    \/ frame_vulkan_commandbuffer_record
    \/ frame_vkQueueSubmit
    \/ frame_vkQueuePresentKHR
    \/ gpu_retire
    \/ gpu_present
    \/ application_destroy

Spec == Init /\ [][Next]_vars

\* the host thread runs whenever it can: a call that is able to return returns
FairSpec == Spec /\ WF_vars(frame_vkWaitForFences)

\* main up to the return of application_create, and the cleanup after a failure
CreateNext ==
    \/ application_create_glfwInit
    \/ application_create_window
    \/ vulkan_instance_create
    \/ vulkan_surface_create
    \/ vulkan_physicaldevice_find
    \/ vulkan_queuefamily_find
    \/ vulkan_device_create
    \/ vulkan_swapchain_create
    \/ vulkan_imageviews_create
    \/ vulkan_renderpass_create
    \/ vulkan_graphicspipeline_create
    \/ vulkan_framebuffers_create
    \/ vulkan_commandpool_create
    \/ vulkan_commandbuffer_allocate
    \/ vulkan_synchronizationobjects_create
    \/ application_destroy

\* application_create on the wider range of machines
CreateSpec == WideInit /\ [][CreateNext]_vars

FileNext == file_read

\* file_read alone
FileSpec == FileInit /\ [][FileNext]_vars

\* ------------------------------------------------------------------ properties
Range(seq) == {seq[i] : i \in 1..Len(seq)}
Pos(seq, x) == CHOOSE i \in 1..Len(seq) : seq[i] = x
Occurrences(seq, x) == Cardinality({i \in 1..Len(seq) : seq[i] = x})
Kind(o) == o[1]

InitSucceeded == Len(stages) = Len(StageOrder) /\ stages[Len(stages)].ok
InitFailed == Len(stages) > 0 /\ ~stages[Len(stages)].ok
Stopped == pc \in {"application_destroy", "exit"}

\* C1: in every frame, vkAcquireNextImageKHR is attempted only after the
\* in-flight fence was waited on and then reset in that same frame.
C1_AcquireAfterFenceWaitAndReset ==
    \A i \in 1..Len(calls) :
        calls[i] = "vkAcquireNextImageKHR" =>
            \E j \in 1..Len(calls), k \in 1..Len(calls) :
                /\ j < k /\ k < i
                /\ calls[j] = "vkWaitForFences"
                /\ calls[k] = "vkResetFences"

\* C1 witness: a second frame has attempted its acquire
C1_Witness == frames >= 2 /\ "vkAcquireNextImageKHR" \in Range(calls)

\* C2: the host goes past the fence wait (reset, acquire, command-buffer reset
\* and re-record, submit) only when no earlier submission is still pending on
\* the GPU, so at most one submission is ever pending.
C2_SingleSubmissionInFlight ==
    /\ pc \in { "vkResetFences", "vkAcquireNextImageKHR", "vkResetCommandBuffer",
                "vulkan_commandbuffer_record", "vkQueueSubmit" } => gpuPending = 0
    /\ gpuPending <= 1

\* C3: after a frame abandoned with the fence reset and nothing submitted, the
\* next frame's fence wait returns; the loop is never stuck in it.
C3_FenceWaitReturnsAfterAbandonedFrame ==
    (pc = "vkWaitForFences" /\ lastFrame = "failed_unarmed") ~> (pc = "vkResetFences")

\* C3 witness: the frame after an abandoned first frame has got as far as Present
C3_Witness ==
    lastFrame = "failed_unarmed" /\ frames = 2 /\ pc = "vkQueuePresentKHR"

\* C4: once initialization succeeded, the program leaves the frame loop only on
\* a close request, and application_mainloop has then returned true and main
\* exits with success, however many frames failed.
C4_FrameFailuresNotFatal ==
    InitSucceeded =>
        IF Stopped
        THEN shouldClose /\ mainloop_result = "true" /\ success = "EXIT_SUCCESS"
        ELSE mainloop_result = "none"

\* C4 witness: the process ended with success after two failed frames
C4_Witness == pc = "exit" /\ failed >= 2 /\ success = "EXIT_SUCCESS"

\* C5: stages run in order and stop at the first failure; after a failure the
\* frame loop is never entered, application_destroy runs exactly once and the
\* exit status is failure; frames run only after all stages succeeded.
C5_InitFailureIsFatal ==
    /\ \A i \in 1..Len(stages) : stages[i].stage = StageOrder[i]
    /\ \A i \in 1..(Len(stages) - 1) : stages[i].ok
    /\ InitFailed =>
        /\ Stopped
        /\ frames = 0
        /\ mainloop_result = "none"
        /\ success = "EXIT_FAILURE"
        /\ destroy_runs = IF pc = "exit" THEN 1 ELSE 0
    /\ (frames > 0 \/ pc \in Range(FrameOrder) \/ pc = "mainloop") => InitSucceeded
    /\ destroy_runs <= 1

\* C5 witness: swapchain creation failed and the process has exited
C5_Witness ==
    /\ pc = "exit"
    /\ InitFailed
    /\ stages[Len(stages)].stage = "vulkan_swapchain_create"
    /\ destroy_runs = 1

SyncKinds == Range(SyncOrder)

\* C6 as claimed: of two destroyed objects of different kinds, the one created
\* later is destroyed first.
C6_StrictReverseOrder ==
    \A i \in 1..Len(created), j \in 1..Len(created) :
        ( /\ i < j
          /\ Kind(created[i]) # Kind(created[j])
          /\ created[i] \in Range(destroyed)
          /\ created[j] \in Range(destroyed) )
        => Pos(destroyed, created[j]) < Pos(destroyed, created[i])

\* C6 amended: teardown destroys kinds in reverse creation order, except that
\* the three synchronization objects go in their creation order; the elements
\* of one per-image set go in ascending index order.
C6_ReverseOrderExceptSyncObjects ==
    \A i \in 1..Len(created), j \in 1..Len(created) :
        ( /\ i < j
          /\ created[i] \in Range(destroyed)
          /\ created[j] \in Range(destroyed) )
        => IF \/ Kind(created[i]) = Kind(created[j])
              \/ {Kind(created[i]), Kind(created[j])} \subseteq SyncKinds
           THEN Pos(destroyed, created[i]) < Pos(destroyed, created[j])
           ELSE Pos(destroyed, created[j]) < Pos(destroyed, created[i])

\* C6 witness: teardown after a complete initialization destroyed every object
C6_Witness ==
    /\ pc = "exit"
    /\ InitSucceeded
    /\ Len(destroyed) = Len(created)
    /\ vulkan.swapchain_framebuffers_count >= 2

\* C7: at process exit every object that was created has been destroyed
\* exactly once.
C7_NoHandleLeaked ==
    pc = "exit" =>
        \A i \in 1..Len(created) : Occurrences(destroyed, created[i]) = 1

ScopedNames ==
    { "vertex_shader_code", "fragment_shader_code",
      "vertex_shadermodule", "fragment_shadermodule" }

\* C8: whichever way vulkan_graphicspipeline_create returns, every shader
\* module it created and every file buffer it was given has been released.
C8_ScopedResourcesReleasedOnEveryPath ==
    shaders.failed_step # "not_run" =>
        \A r \in ScopedNames : shaders[r].released = shaders[r].acquired

\* C9: when vkCreatePipelineLayout fails, the function fails, and both modules
\* and both buffers, all acquired, are each released exactly once.
C9_LayoutFailureReleasesOnce ==
    shaders.failed_step = "vkCreatePipelineLayout" =>
        /\ ~shaders.result
        /\ InitFailed
        /\ \A r \in ScopedNames :
            shaders[r].acquired = 1 /\ shaders[r].released = 1

\* C9 witness: the pipeline stage ran and failed at the layout
C9_Witness == shaders.failed_step = "vkCreatePipelineLayout" /\ pc = "exit"

\* C10 as claimed: a list of at most MAX_TMP_BUFFER entries is read whole, a
\* longer one fails the stage.
C10_BoundedEnumeration ==
    \A i \in 1..Len(enums) :
        IF enums[i].L <= MAX_TMP_BUFFER
        THEN enums[i].yielded = enums[i].L
        ELSE enums[i].yielded = -1 /\ InitFailed

\* lists whose being empty is itself rejected, before the capacity test
RejectedWhenEmpty == {"devices", "surface_formats", "present_modes"}

C10_Enumerated ==
    \A i \in 1..Len(enums) :
        LET e == enums[i]
        IN IF e.L > MAX_TMP_BUFFER \/ (e.L = 0 /\ e.kind \in RejectedWhenEmpty)
           THEN e.yielded = -1 /\ InitFailed
           ELSE e.yielded = e.L

\* C10 amended: a list longer than MAX_TMP_BUFFER, or an empty list of physical
\* devices, surface formats or present modes, fails the stage, which then
\* writes nothing into the context; every other list is read whole.
C10_BoundedEnumerationNonEmpty ==
    /\ []C10_Enumerated
    /\ [][(\E i \in 1..Len(enums') : enums'[i].yielded = -1)
            => (vulkan' = vulkan /\ created' = created)]_vars

\* C10 witness: a list of exactly MAX_TMP_BUFFER entries was read whole, and
\* the stage after it met a list one entry longer
C10_Witness ==
    \E i \in 1..Len(enums) :
        /\ enums[i].L = MAX_TMP_BUFFER
        /\ enums[i].yielded = MAX_TMP_BUFFER
        /\ enums[i].kind = "surface_formats"
        /\ Len(enums) = 2
        /\ enums[2].L = MAX_TMP_BUFFER + 1

\* ------------------------------------------------------------------ swapchain properties
Caps == driver.surface_capabilities
Requested == create_infos.swapchain
SwapchainTried == Len(stages) >= 8 /\ stages[8].stage = "vulkan_swapchain_create"
SwapchainOk == SwapchainTried /\ stages[8].ok

\* C11: the image count asked of vkCreateSwapchainKHR is
\* min(min(minImageCount + 1, maxImageCount when it is not 0), 10) whenever
\* minImageCount <= 10, and the stage fails, asking for nothing, when
\* minImageCount > 10; {1,0}, {2,2} and {1,3} give 2.
C11_RequestedImageCount ==
    /\ Requested.called =>
        /\ Caps.minImageCount <= 10
        /\ Requested.minImageCount =
            Min(Min(Caps.minImageCount + 1,
                    IF Caps.maxImageCount > 0 THEN Caps.maxImageCount
                    ELSE Caps.minImageCount + 1),
                10)
        /\ <<Caps.minImageCount, Caps.maxImageCount>> \in {<<1, 0>>, <<2, 2>>, <<1, 3>>}
            => Requested.minImageCount = 2
    /\ (SwapchainTried /\ Caps.minImageCount > 10) =>
        /\ ~SwapchainOk
        /\ ~Requested.called
        /\ vulkan.swapchain = 0

\* C11 witness: a minimum of 10 with a maximum of 12 asked for 10 images
C11_Witness ==
    /\ Requested.called
    /\ Caps.minImageCount = 10 /\ Caps.maxImageCount = 12
    /\ Requested.minImageCount = 10

\* C12: whenever vkCreateSwapchainKHR is called, the image count asked for lies
\* between minImageCount and the smaller of 10 and maxImageCount (no maximum
\* when maxImageCount is 0).
C12_ImageCountWithinLimits ==
    Requested.called =>
        /\ Caps.minImageCount <= Requested.minImageCount
        /\ Requested.minImageCount <= 10
        /\ Caps.maxImageCount # 0 => Requested.minImageCount <= Caps.maxImageCount

\* C12 witness: limits {9, 10} leave only 9 and 10 to choose from
C12_Witness ==
    /\ Requested.called
    /\ Caps.minImageCount = 9 /\ Caps.maxImageCount = 10
    /\ Requested.minImageCount = 10

Clamp(x, lo, hi) == IF x < lo THEN lo ELSE IF x > hi THEN hi ELSE x

\* C13: with the current extent undefined, the extent asked for is the
\* framebuffer size clamped into [minImageExtent, maxImageExtent], width and
\* height each in the same way.
C13_ExtentClampedPerAxis ==
    (Requested.called /\ Caps.currentExtent = UndefinedExtent) =>
        Requested.imageExtent =
            Extent(Clamp(driver.framebuffer.width,
                         Caps.minImageExtent.width, Caps.maxImageExtent.width),
                   Clamp(driver.framebuffer.height,
                         Caps.minImageExtent.height, Caps.maxImageExtent.height))

HasRequiredFormat ==
    \E i \in 1..Len(driver.surface_formats) :
        /\ driver.surface_formats[i].format = "B8G8R8A8_SRGB"
        /\ driver.surface_formats[i].colorSpace = "SRGB_NONLINEAR"

\* C14: with minImageCount 2, maxImageCount 0, the current extent undefined, a
\* 1280x720 framebuffer inside the extent limits and the required format
\* present, a created swapchain has image count 3, extent 1280x720 and format
\* B8G8R8A8 sRGB.
C14_EndToEndScenario ==
    ( /\ SwapchainOk
      /\ Caps.minImageCount = 2 /\ Caps.maxImageCount = 0
      /\ Caps.currentExtent = UndefinedExtent
      /\ driver.framebuffer = Extent(1280, 720)
      /\ Caps.minImageExtent.width <= 1280 /\ 1280 <= Caps.maxImageExtent.width
      /\ Caps.minImageExtent.height <= 720 /\ 720 <= Caps.maxImageExtent.height
      /\ HasRequiredFormat )
    => /\ Requested.minImageCount = 3
       /\ Requested.imageExtent = Extent(1280, 720)
       /\ vulkan.swapchain_extent = Extent(1280, 720)
       /\ vulkan.swapchain_image_format = "B8G8R8A8_SRGB"

\* C15: with equal graphics and present indices vkCreateDevice gets one queue
\* descriptor and the swapchain is exclusive with no index list; with different
\* indices vkCreateDevice gets two descriptors, one per family, and the
\* swapchain is concurrent and lists both indices.
C15_QueueFamilyCollapsing ==
    LET g == vulkan.graphics_queuefamily_index
        p == vulkan.present_queuefamily_index
    IN /\ create_infos.device.called =>
            IF g = p
            THEN /\ create_infos.device.queueCreateInfoCount = 1
                 /\ create_infos.device.queueFamilyIndex = <<g>>
            ELSE /\ create_infos.device.queueCreateInfoCount = 2
                 /\ create_infos.device.queueFamilyIndex = <<g, p>>
       /\ Requested.called =>
            IF g = p
            THEN /\ Requested.imageSharingMode = "EXCLUSIVE"
                 /\ Requested.queueFamilyIndexCount = 0
                 /\ Requested.pQueueFamilyIndices = <<>>
            ELSE /\ Requested.imageSharingMode = "CONCURRENT"
                 /\ Requested.queueFamilyIndexCount = 2
                 /\ Requested.pQueueFamilyIndices = <<g, p>>

\* C15 witness: a swapchain was asked for with graphics on family 1 and present
\* on family 0
C15_Witness ==
    /\ Requested.called
    /\ vulkan.graphics_queuefamily_index = 1
    /\ vulkan.present_queuefamily_index = 0
    /\ create_infos.device.queueCreateInfoCount = 2

GraphicsFamilies ==
    {i \in 1..Len(driver.queuefamilies) : driver.queuefamilies[i].graphics}
PresentFamilies ==
    {i \in 1..Len(driver.queuefamilies) : driver.queuefamilies[i].present}
Lowest(S) == CHOOSE i \in S : \A j \in S : i <= j
QueueFamilyTried == Len(stages) >= 6 /\ stages[6].stage = "vulkan_queuefamily_find"

\* on success the indices are those of the lowest graphics family and of the
\* lowest present family
C16_LowestIndices ==
    (QueueFamilyTried /\ stages[6].ok) =>
        /\ GraphicsFamilies # {} /\ PresentFamilies # {}
        /\ vulkan.graphics_queuefamily_index = Lowest(GraphicsFamilies) - 1
        /\ vulkan.present_queuefamily_index = Lowest(PresentFamilies) - 1

PerImageCounts ==
    << vulkan.swapchain_images_count, vulkan.swapchain_imageviews_count,
       vulkan.swapchain_framebuffers_count >>

\* C17: once initialization succeeded the three per-image counts are equal and
\* at most 10, and no later step, a frame operation least of all, changes them.
C17_PerImageCountsAgree ==
    /\ [](InitSucceeded =>
            /\ vulkan.swapchain_images_count = vulkan.swapchain_imageviews_count
            /\ vulkan.swapchain_imageviews_count = vulkan.swapchain_framebuffers_count
            /\ vulkan.swapchain_images_count <= 10)
    /\ [][InitSucceeded => PerImageCounts' = PerImageCounts]_vars

\* C17 witness: the second frame is about to present with two swapchain images
C17_Witness ==
    /\ InitSucceeded
    /\ frames = 2 /\ pc = "vkQueuePresentKHR"
    /\ vulkan.swapchain_framebuffers_count = 2

PerImageStages ==
    { [stage |-> "vulkan_imageviews_create", kind |-> "imageview",
       array |-> vulkan.swapchain_imageviews,
       count |-> vulkan.swapchain_imageviews_count,
       wanted |-> vulkan.swapchain_images_count],
      [stage |-> "vulkan_framebuffers_create", kind |-> "framebuffer",
       array |-> vulkan.swapchain_framebuffers,
       count |-> vulkan.swapchain_framebuffers_count,
       wanted |-> vulkan.swapchain_imageviews_count] }

\* after a per-image stage failed: items 0..i-1 exist for some i below the
\* number wanted, nothing from i on, the count field is 0 and no stage follows
C18_StoppedAtFailure ==
    \A s \in PerImageStages :
        (InitFailed /\ stages[Len(stages)].stage = s.stage) =>
            LET made == {o \in Range(created) : Kind(o) = s.kind}
                i == Cardinality(made)
            IN /\ made = {Obj(s.kind, k) : k \in 0..(i - 1)}
               /\ i < s.wanted
               /\ \A k \in Images : (s.array[k] # 0) <=> (k < i)
               /\ s.count = 0
               /\ Stopped

\* C18: when creating image view or framebuffer i fails, the loop has created
\* items 0..i-1 only, the stage fails, its count field keeps its value, and no
\* later stage runs.
C18_PartialSetNeverObserved ==
    /\ []C18_StoppedAtFailure
    /\ [][(pc \in {"vulkan_imageviews_create", "vulkan_framebuffers_create"}
            /\ pc' = "application_destroy")
          => PerImageCounts' = PerImageCounts]_vars

\* C18 witness: the third of ten framebuffers could not be created
C18_Witness ==
    /\ InitFailed
    /\ stages[Len(stages)].stage = "vulkan_framebuffers_create"
    /\ vulkan.swapchain_imageviews_count = 10
    /\ Obj("framebuffer", 1) \in Range(created)
    /\ Obj("framebuffer", 2) \notin Range(created)
    /\ pc = "exit"

\* C19: the swapchain stage succeeds only when some surface format has both the
\* B8G8R8A8 sRGB format and the sRGB-nonlinear color space, and then uses that
\* pair; without such a format it fails before vkCreateSwapchainKHR and writes
\* no format.
C19_ExactFormatOrFailure ==
    SwapchainTried =>
        /\ SwapchainOk =>
            /\ HasRequiredFormat
            /\ vulkan.swapchain_image_format = "B8G8R8A8_SRGB"
        /\ Requested.called =>
            /\ Requested.imageFormat = "B8G8R8A8_SRGB"
            /\ Requested.imageColorSpace = "SRGB_NONLINEAR"
        /\ ~HasRequiredFormat =>
            /\ ~SwapchainOk
            /\ ~Requested.called
            /\ vulkan.swapchain = 0
            /\ Obj("swapchain", 0) \notin Range(created)
            /\ vulkan.swapchain_image_format = "UNDEFINED"

\* C19 witness: one format has the right format and another the right color
\* space, none has both, and the stage failed
C19_Witness ==
    /\ SwapchainTried /\ ~SwapchainOk
    /\ ~HasRequiredFormat
    /\ \E i \in 1..Len(driver.surface_formats) :
        driver.surface_formats[i].format = "B8G8R8A8_SRGB"
    /\ \E i \in 1..Len(driver.surface_formats) :
        driver.surface_formats[i].colorSpace = "SRGB_NONLINEAR"
    /\ enums[1].L = 2

\* C20: a current extent that is not the undefined marker is used as it is, on
\* both axes, whatever the extent limits and the framebuffer size are.
C20_CurrentExtentVerbatim ==
    (Requested.called /\ Caps.currentExtent # UndefinedExtent) =>
        /\ Requested.imageExtent = Caps.currentExtent
        /\ SwapchainOk => vulkan.swapchain_extent = Caps.currentExtent

\* C20 witness: a current extent of 5000x3000, above the maximum of 1280x720
\* and unlike the 800x600 framebuffer, became the swapchain's extent
C20_Witness ==
    /\ SwapchainOk
    /\ Caps.currentExtent = Extent(5000, 3000)
    /\ Caps.maxImageExtent = Extent(1280, 720)
    /\ driver.framebuffer = Extent(800, 600)
    /\ vulkan.swapchain_extent = Extent(5000, 3000)

InstanceTried == Len(stages) = StageIndex("vulkan_instance_create")

\* C21: when diagnostics are enabled, layer validation lets vkCreateInstance be
\* reached exactly when every requested layer is among the enumerated layers,
\* and a missing layer fails the stage with no instance created; the layers
\* handed over are the requested ones. When diagnostics are disabled no layer
\* is enumerated and none is enabled.
C21_LayerValidation ==
    InstanceTried =>
        LET info == create_infos.instance
            stage == stages[Len(stages)]
        IN IF vulkan.enable_validation_layers
           THEN /\ Len(enums) = 1
                /\ enums[1].kind = "layers"
                /\ info.called <=> RequestedLayers \subseteq enums[1].names
                /\ ~info.called =>
                      /\ ~stage.ok
                      /\ vulkan.instance = 0
                      /\ Obj("instance", 0) \notin Range(created)
                /\ info.called =>
                      /\ info.enabledLayerCount = Cardinality(RequestedLayers)
                      /\ info.ppEnabledLayerNames = RequestedLayers
           ELSE /\ enums = <<>>
                /\ info.called
                /\ info.enabledLayerCount = 0
                /\ info.ppEnabledLayerNames = {}

\* diagnostics enabled, layers enumerated, the requested one not among them
C21_Witness ==
    /\ InstanceTried
    /\ vulkan.enable_validation_layers
    /\ enums[1].names = {"VK_LAYER_other"}
    /\ ~create_infos.instance.called
    /\ pc = "application_destroy"

\* every driver call of one complete frame, in order
FullFrame ==
    << "vkWaitForFences", "vkResetFences", "vkAcquireNextImageKHR",
       "vkResetCommandBuffer", "vkBeginCommandBuffer" >>
    \o RecordedCommands \o << "vkQueueSubmit", "vkQueuePresentKHR" >>
IsPrefix(a, b) == Len(a) <= Len(b) /\ \A i \in 1..Len(a) : a[i] = b[i]
\* the first driver call a step of the frame makes
FirstCall(step) ==
    IF step = "vulkan_commandbuffer_record" THEN "vkBeginCommandBuffer" ELSE step

\* C22: the driver calls of a frame are a prefix of wait, reset fence, acquire,
\* reset command buffer, record, submit, present, so each is made at most once
\* and in that order; a step is entered with exactly the earlier calls made;
\* the step that fails ends the frame, and nothing more is called until the
\* next frame starts.
C22_FrameStepsInOrder ==
    /\ [](/\ IsPrefix(calls, FullFrame)
          /\ pc \in Range(FrameOrder) =>
                Len(calls) = Pos(FullFrame, FirstCall(pc)) - 1)
    /\ [][/\ failed' # failed => pc \in Range(FrameOrder) /\ pc' = "mainloop"
          /\ pc \notin Range(FrameOrder) => calls' = calls \/ calls' = <<>>]_vars

\* vkEndCommandBuffer failed: the frame ended there, nothing was submitted
C22_Witness ==
    /\ pc = "mainloop"
    /\ frames = MaxFrames
    /\ lastFrame = "failed_unarmed"
    /\ Len(calls) > 0
    /\ calls[Len(calls)] = "vkEndCommandBuffer"

\* the frame has acquired its image and not yet submitted
BeforeSubmit ==
    pc \in {"vkResetCommandBuffer", "vulkan_commandbuffer_record", "vkQueueSubmit"}

\* C23: within a frame the GPU is ordered by this frame's own signals. The
\* submission about to be made finds on image-available only the signal of
\* this frame's acquire (besides those that earlier pending submissions will
\* consume); the present about to be queued finds on render-finished only the
\* signal of this frame's submission (besides those that earlier queued
\* presents will consume); and the fence reset by this frame is not signaled
\* before this frame has submitted.
C23_OrderedByThisFramesSignals ==
    /\ pc = "vkQueueSubmit" => imageAvailable = gpuPending + 1
    /\ pc = "vkQueuePresentKHR" => renderFinished + gpuPending = presentPending + 1
    /\ (pc = "vkAcquireNextImageKHR" \/ BeforeSubmit) => fence = "unsignaled"

\* the commands of one recording, by name
CommandNames == [i \in 1..Len(commands) |-> commands[i].cmd]

\* C24: the one command buffer is empty (reset) whenever a recording starts and
\* is never reallocated; a finished recording holds, in order, begin render
\* pass on the framebuffer of the acquired index, bind pipeline, set viewport,
\* set scissor, a draw of 3 vertices and 1 instance, end render pass, and
\* vkEndCommandBuffer was the last call; when vkBeginCommandBuffer fails
\* nothing is recorded and the frame fails.
C24_ResetThenRecordInOrder ==
    /\ [](/\ pc = "vulkan_commandbuffer_record" => commands = <<>>
          /\ pc \in {"vkQueueSubmit", "vkQueuePresentKHR"} =>
                /\ CommandNames =
                      << "vkCmdBeginRenderPass", "vkCmdBindPipeline",
                         "vkCmdSetViewport", "vkCmdSetScissor", "vkCmdDraw",
                         "vkCmdEndRenderPass" >>
                /\ commands[1].framebuffer_index = image_index
                /\ commands[5].vertexCount = 3
                /\ commands[5].instanceCount = 1
                /\ Pos(calls, "vkResetCommandBuffer") + 1
                      = Pos(calls, "vkBeginCommandBuffer")
                /\ Pos(calls, "vkEndCommandBuffer")
                      = Pos(calls, "vkBeginCommandBuffer") + Len(commands) + 1
          /\ (pc = "mainloop" /\ Len(calls) > 0
                /\ calls[Len(calls)] = "vkBeginCommandBuffer") =>
                /\ commands = <<>>
                /\ lastFrame = "failed_unarmed")
    /\ [][vulkan.command_buffer # 0 =>
            vulkan.command_buffer' = vulkan.command_buffer]_vars

\* the second frame recorded again, for an image that is not the first
C24_Witness ==
    /\ pc = "vkQueueSubmit"
    /\ frames = MaxFrames
    /\ image_index > 0
    /\ commands # <<>>

\* every destroyed object of kind a was destroyed before every one of kind b
DestroyedBefore(a, b) ==
    \A i, j \in 1..Len(destroyed) :
        (Kind(destroyed[i]) = a /\ Kind(destroyed[j]) = b) => i < j

DeviceOwnedKinds ==
    { "swapchain_image_available", "render_finished", "frame_in_flight",
      "command_pool", "framebuffer", "graphics_pipeline", "pipeline_layout",
      "render_pass", "imageview", "swapchain" }

\* C25: teardown respects ownership: framebuffers go before the render pass
\* and before the image views, pipeline and pipeline layout before the render
\* pass, image views before the swapchain, every device-owned object before
\* the device, device and surface before the instance, and the instance last.
C25_TeardownRespectsOwnership ==
    pc = "exit" =>
        /\ DestroyedBefore("framebuffer", "render_pass")
        /\ DestroyedBefore("framebuffer", "imageview")
        /\ DestroyedBefore("graphics_pipeline", "render_pass")
        /\ DestroyedBefore("pipeline_layout", "render_pass")
        /\ DestroyedBefore("imageview", "swapchain")
        /\ \A k \in DeviceOwnedKinds : DestroyedBefore(k, "device")
        /\ DestroyedBefore("device", "instance")
        /\ DestroyedBefore("surface", "instance")
        /\ \A i \in 1..Len(destroyed) :
              Kind(destroyed[i]) = "instance" => i = Len(destroyed)

\* a complete context with two images torn down
C25_Witness ==
    /\ pc = "exit"
    /\ InitSucceeded
    /\ vulkan.swapchain_framebuffers_count = 2
    /\ DeviceOwnedKinds \cup {"device", "surface", "instance"}
          = {Kind(destroyed[i]) : i \in 1..Len(destroyed)}

\* C26: the in-flight fence is created signaled, so the first frame finds it
\* signaled with nothing submitted before, and the first frame, however it
\* ends, has attempted vkAcquireNextImageKHR.
C26_FirstFrameReachesAcquire ==
    /\ (InitSucceeded /\ frames = 0 /\ destroy_runs = 0) => fence = "signaled"
    /\ (frames = 1 /\ pc = "vkWaitForFences") =>
            fence = "signaled" /\ gpuPending = 0
    /\ (frames = 1 /\ pc \notin {"vkWaitForFences", "vkResetFences",
                                   "vkAcquireNextImageKHR"}) =>
            "vkAcquireNextImageKHR" \in Range(calls)

\* the first frame stands at the acquire, nothing submitted so far
C26_Witness ==
    /\ frames = 1
    /\ pc = "vkAcquireNextImageKHR"
    /\ calls = <<"vkWaitForFences", "vkResetFences">>
    /\ gpuPending = 0

\* C27: an index handed out by vkAcquireNextImageKHR is below
\* swapchain_framebuffers_count, which is at most MAX_SWAPCHAIN_IMAGES, and
\* the framebuffer a recording begins its render pass on is a created one.
C27_AcquiredIndexHasFramebuffer ==
    /\ vulkan.swapchain_framebuffers_count <= MAX_SWAPCHAIN_IMAGES
    /\ (BeforeSubmit \/ pc = "vkQueuePresentKHR") =>
            image_index < vulkan.swapchain_framebuffers_count
    /\ commands # <<>> => commands[1].framebuffer # 0

\* C28: when the loop has ended on a close request and application_destroy
\* has run, no submission and no present request was still pending.
C28_TeardownAfterDeviceIdle ==
    (pc = "exit" /\ mainloop_result = "true") =>
        gpuPending = 0 /\ presentPending = 0

\* C29: vkAcquireNextImageKHR is never given swapchain_image_available while
\* a signal of an earlier acquire is still on it, and render_finished never
\* carries two signals, across abandoned frames too.
C29_SemaphoresNeverSignaledTwice ==
    /\ pc = "vkAcquireNextImageKHR" => imageAvailable = 0
    /\ renderFinished <= 1

\* images acquired by the application and not yet given to a present request
Unpresented == held - presentPending

\* C30: a frame starts with no image acquired and not presented, and at no
\* time is more than one image in that state.
C30_AtMostOneUnpresentedImage ==
    /\ pc = "vkWaitForFences" => Unpresented = 0
    /\ Unpresented <= 1

\* C31: application_destroy makes no call through a device or an instance
\* that was not created, destroys no window that was not created and does not
\* terminate a windowing library that was not initialized.
C31_TeardownUsesExistingParents ==
    \A i \in 1..Len(teardown_calls) :
        LET c == teardown_calls[i]
        IN /\ c.via \in {"device", "instance"} => c.parent # 0
           /\ c.call = "glfwDestroyWindow" => c.handle # 0
           /\ c.call = "glfwTerminate" => c.parent # 0

\* C32: file_read closes the stream once exactly when fopen gave one and
\* never closes nullptr; when it fails, whatever it allocated is freed and
\* *content and *content_size are as before; when it succeeds, one buffer was
\* allocated, none freed, and *content and *content_size are that buffer and
\* the size of the file.
C32_FileReadContract ==
    file_io.pc \in {"returned", "crashed"} =>
        LET in == file_io.in
            out == file_io.out
        IN /\ out.fclose_null = 0
           /\ out.fclose_open = (IF in.fopen_ok THEN 1 ELSE 0)
           /\ ~out.success =>
                /\ out.freed = out.allocated
                /\ out.content = in.content
                /\ out.content_size = in.content_size
           /\ out.success =>
                /\ out.allocated = 1
                /\ out.freed = 0
                /\ out.content = NewBuffer
                /\ out.content_size = in.ftell

====
